---- MODULE Spec2Model ----
(***************************************************************************)
(* Model of dashboard_customerdb.py, a Streamlit script.  One execution of *)
(* the script runs top to bottom: load_data, the overview, then the        *)
(* univariate, bivariate and multivariate panels.  A widget change (or a   *)
(* plain rerun) starts the next execution once the previous one has ended. *)
(***************************************************************************)
EXTENDS Integers, Sequences, FiniteSets, TLC

VARIABLES
    csv,               \* CustomerDB_clean.csv as pd.read_csv returns it
    raises,            \* the collaborator call that raises in this session
    cache,             \* st.cache_data store of load_data: <<>> or <<frame>>
    df,                \* module-level df                           (line 39)
    numeric_cols,      \* line 41
    categorical_cols,  \* line 42
    view,              \* the frame shown as the Customer Data Table (50-52)
    filters,           \* sidebar filter widgets (not in this file)
    uni_feature,       \* selectbox key "uni_feature"               (line 82)
    bivar_feature_x,   \* selectbox key "bivar_x"                   (line 115)
    bivar_feature_y,   \* selectbox key "bivar_y"                   (line 116)
    multi_features,    \* multiselect                               (line 191)
    df_sel,            \* <<>> or <<frame>>: df_sel of the mixed branch
    out,               \* what this execution has put on the page so far
    pc,                \* position of the running execution
    same,              \* the running execution repeats the previous widgets
    prevOut,           \* the page of the previous execution when same
    tightened          \* the last filter change only tightened the filters

vars == <<csv, raises, cache, df, numeric_cols, categorical_cols, view, filters,
          uni_feature, bivar_feature_x, bivar_feature_y, multi_features,
          df_sel, out, pc, same, prevOut, tightened>>

(***************************************************************************)
(* Bounds                                                                  *)
(***************************************************************************)
MaxSel == 3      \* longest multiselect selection the user makes
NumRows == 2     \* rows of the csv file in the filter specification

(***************************************************************************)
(* Column names.  A name is the sequence of its words and separators, so   *)
(* that str.replace on separators can be computed.                         *)
(***************************************************************************)
Unnamed0 == <<"Unnamed:", " ", "0">>
ProvinceOrState == <<"Province", " ", "or", " ", "State">>
ProvinceHyphen == <<"Province", "-", "or", "-", "State">>
Province_or_State == <<"Province", "_", "or", "_", "State">>
Gender == <<"Gender">>
Income == <<"Income">>
CustomerLifetimeValue == <<"Customer", " ", "Lifetime", " ", "Value">>
EnrollmentDateOpening == <<"EnrollmentDateOpening">>
CancellationDate == <<"CancellationDate">>

\* the columns the script indexes by name (lines 35, 36, 60-63)
RequiredColumns == {ProvinceOrState, Income, CustomerLifetimeValue,
                    EnrollmentDateOpening, CancellationDate}

\* the order of the columns in the file
ColumnOrder == <<Unnamed0, ProvinceOrState, ProvinceHyphen, Gender, Income,
                 CustomerLifetimeValue, Province_or_State,
                 EnrollmentDateOpening, CancellationDate>>

\* the sets of further columns a file may carry
ExtraChoices == { {},
                  {Unnamed0, Province_or_State},
                  {Gender, ProvinceHyphen},
                  {ProvinceHyphen, Province_or_State} }

\* the dtype read_csv infers for each column of the file
CsvDtype(c) == IF c \in {Unnamed0, Income, CustomerLifetimeValue, Province_or_State}
               THEN "number" ELSE "object"

(***************************************************************************)
(* Cells and frames                                                        *)
(***************************************************************************)
NaN == [null |-> TRUE, n |-> 0, s |-> ""]
Num(n) == [null |-> FALSE, n |-> n, s |-> ""]
Str(s) == [null |-> FALSE, n |-> 0, s |-> s]

Range(s) == {s[i] : i \in DOMAIN s}
Contains(s, x) == \E i \in DOMAIN s : s[i] = x
IndexOf(s, x) == CHOOSE i \in DOMAIN s : s[i] = x

\* a DataFrame: column labels, their dtypes, the index labels, the rows
Frame(columns, dtypes, index, data) ==
    [columns |-> columns, dtypes |-> dtypes, index |-> index, data |-> data]

EmptyFrame == Frame(<<>>, <<>>, <<>>, <<>>)

\* the positions 1..n of a sequence, in order
Indices(n) == [i \in 1..n |-> i]

\* frame[rows at positions ps]
TakeRows(f, ps) ==
    Frame(f.columns, f.dtypes,
          [k \in DOMAIN ps |-> f.index[ps[k]]],
          [k \in DOMAIN ps |-> f.data[ps[k]]])

\* frame[columns at positions cs]
TakeColumns(f, cs) ==
    Frame([k \in DOMAIN cs |-> f.columns[cs[k]]],
          [k \in DOMAIN cs |-> f.dtypes[cs[k]]],
          f.index,
          [r \in DOMAIN f.data |-> [k \in DOMAIN cs |-> f.data[r][cs[k]]]])

\* df[cols]: the named columns, in the order asked for, as a new frame
Project(f, cols) == TakeColumns(f, [k \in DOMAIN cols |-> IndexOf(f.columns, cols[k])])

\* df.drop(columns=[c])
DropColumn(f, c) ==
    LET keep(i) == f.columns[i] # c
    IN TakeColumns(f, SelectSeq(Indices(Len(f.columns)), keep))

(***************************************************************************)
(* The csv file                                                            *)
(***************************************************************************)
\* the kinds of customer record a file holds
RowProfiles ==
    { [income |-> Num(50000), province |-> Str("Ontario"), value |-> Num(4000),
       enroll |-> Str("2016-02-01"), cancel |-> NaN],
      [income |-> Num(30000), province |-> Str("Quebec"), value |-> NaN,
       enroll |-> Str("n/a"), cancel |-> Str("2018-03-01")],
      [income |-> NaN, province |-> Str("Ontario"), value |-> Num(4000),
       enroll |-> Str("2016-02-01"), cancel |-> Str("2018-03-01")] }

\* the rows of the file in the router specifications
RouterRows ==
    << [income |-> Num(50000), province |-> Str("Ontario"), value |-> Num(4000),
        enroll |-> Str("2016-02-01"), cancel |-> NaN],
       [income |-> NaN, province |-> Str("Ontario"), value |-> Num(4000),
        enroll |-> Str("2016-02-01"), cancel |-> Str("2018-03-01")] >>

\* the cell of column c in the i-th record
CellOf(c, p, i) ==
    CASE c = Unnamed0 -> Num(i - 1)
      [] c = ProvinceOrState -> p.province
      [] c = ProvinceHyphen -> p.province
      [] c = Gender -> Str("Female")
      [] c = Income -> p.income
      [] c = CustomerLifetimeValue -> p.value
      [] c = Province_or_State -> Num(i)
      [] c = EnrollmentDateOpening -> p.enroll
      [] c = CancellationDate -> p.cancel

\* pd.read_csv("CustomerDB_clean.csv") of a file with the required columns,
\* the extras and the given records
read_csv(extras, records) ==
    LET has(c) == c \in RequiredColumns \cup extras
        cols == SelectSeq(ColumnOrder, has)
    IN Frame(cols,
             [k \in DOMAIN cols |-> CsvDtype(cols[k])],
             [i \in DOMAIN records |-> i - 1],
             [i \in DOMAIN records |->
                [k \in DOMAIN cols |-> CellOf(cols[k], records[i], i)]])

\* the strings pd.to_datetime parses
ParsableDates == {"2016-02-01", "2018-03-01"}

\* pd.to_datetime(df[c], errors='coerce') assigned back to df[c]
to_datetime(f, c) ==
    LET j == IndexOf(f.columns, c)
        conv(x) == IF x.null \/ x.s \notin ParsableDates THEN NaN ELSE x
    IN Frame(f.columns,
             [k \in DOMAIN f.columns |-> IF k = j THEN "datetime" ELSE f.dtypes[k]],
             f.index,
             [r \in DOMAIN f.data |->
                [k \in DOMAIN f.columns |->
                    IF k = j THEN conv(f.data[r][k]) ELSE f.data[r][k]]])

\* the body of load_data
load_data(file) ==
    LET d1 == IF Contains(file.columns, Unnamed0)
              THEN DropColumn(file, Unnamed0) ELSE file
        d2 == to_datetime(d1, EnrollmentDateOpening)
    IN to_datetime(d2, CancellationDate)

\* df.select_dtypes(include=kind).columns.tolist()
select_dtypes(f, kind) ==
    LET is(i) == f.dtypes[i] = kind
        ps == SelectSeq(Indices(Len(f.columns)), is)
    IN [k \in DOMAIN ps |-> f.columns[ps[k]]]

\* s[:n]
Prefix(s, n) == SubSeq(s, 1, IF Len(s) < n THEN Len(s) ELSE n)

\* the default of the multiselect
DefaultMulti(f) ==
    LET ncols == select_dtypes(f, "number")
        ccols == select_dtypes(f, "object")
    IN IF Len(ncols) >= 2 /\ Len(ccols) >= 1
       THEN Prefix(ncols, 2) \o Prefix(ccols, 1)
       ELSE Prefix(f.columns, 3)

(***************************************************************************)
(* The page and the collaborators                                          *)
(***************************************************************************)
\* one element put on the page (or one call handed to statsmodels)
Event(panel, kind, what, vs, f, text) ==
    [panel |-> panel, kind |-> kind, what |-> what, vars |-> vs,
     cols |-> f.columns, rows |-> f.index, text |-> text]

\* the outcome of a stretch of the script: what it put on the page and
\* whether it ended in an uncaught exception
Result(ev, raised) == [ev |-> ev, raised |-> raised]

\* r1 followed by r2: r2 runs only if r1 did not raise
Then(r1, r2) ==
    IF r1.raised THEN r1 ELSE Result(r1.ev \o r2.ev, r2.raised)

\* st.subheader, st.markdown, st.write of a title
Heading(panel, text) ==
    Result(<<Event(panel, "heading", "title", <<>>, EmptyFrame, <<text>>)>>, FALSE)

\* st.info, st.warning, st.error
Message(panel, level, text) ==
    Result(<<Event(panel, "message", level, <<>>, EmptyFrame, text)>>, FALSE)

\* the traceback Streamlit shows for an exception nobody caught
Uncaught(panel, call, e) ==
    Result(<<Event(panel, "exception", call, <<>>, EmptyFrame, <<e>>)>>, TRUE)

NoFailure == [call |-> "none", e |-> ""]

PlotCalls == {"px.histogram", "px.box", "px.scatter", "sns.countplot",
              "sns.violinplot", "px.imshow", "px.bar", "sns.boxplot"}

StatsCalls == {"MANOVA.from_formula", "mv_test", "ols.fit", "anova_lm"}

StatsErrors == {"Singular matrix", "PatsyError"}

\* the sessions: nothing raises, or one collaborator call does
Failures ==
    {NoFailure}
    \cup {[call |-> c, e |-> "ValueError"] : c \in PlotCalls}
    \cup {[call |-> c, e |-> e] : c \in StatsCalls, e \in StatsErrors}

\* a chart built by a plotting call and handed to st.plotly_chart / st.pyplot;
\* the call is outside any try block
Plot(panel, call, what, vs, f, env) ==
    IF env.call = call
    THEN Uncaught(panel, call, env.e)
    ELSE Result(<<Event(panel, "chart", what, vs, f, <<>>)>>, FALSE)

(***************************************************************************)
(* Univariate Analysis (lines 81-109)                                      *)
(***************************************************************************)
Univariate(d, ncols, feature, env) ==
    Then(Heading("uni", "Univariate Analysis"),
         IF Contains(ncols, feature)
         THEN Then(Plot("uni", "px.histogram", "histogram", <<feature>>, d, env),
                   Plot("uni", "px.box", "boxplot", <<feature>>, d, env))
         ELSE Plot("uni", "px.histogram", "countplot", <<feature>>, d, env))

(***************************************************************************)
(* Bivariate Analysis (lines 114-178)                                      *)
(***************************************************************************)
\* [col for col in cols if col in members]
Among(cols, members) ==
    LET in(c) == Contains(members, c) IN SelectSeq(cols, in)

\* the two sns.countplot calls drawn on one figure (lines 145-155)
CountplotGrid(d, x, y, env) ==
    Then(Heading("bivar", "Countplot Grid"),
         IF env.call = "sns.countplot"
         THEN Uncaught("bivar", "sns.countplot", env.e)
         ELSE Result(<<Event("bivar", "chart", "countplot_grid",
                             <<x, y, y, x>>, d, <<>>)>>, FALSE))

\* the else branch (lines 158-178)
Mixed(d, ncols, ccols, x, y, env) ==
    LET num_cols == Among(<<x, y>>, ncols)
        cat_cols == Among(<<x, y>>, ccols)
    IN IF Len(num_cols) = 0 \/ Len(cat_cols) = 0
       THEN Message("bivar", "warning",
                    <<"Please select one numeric and one categorical variable.">>)
       ELSE Plot("bivar", "sns.violinplot", "violin_h",
                 <<num_cols[1], cat_cols[1]>>, d, env)

\* lines 118-178 with "or" for "and" in the scatter test of line 124
BivariateEitherNumeric(d, ncols, ccols, x, y, env) ==
    LET is_x_numeric == Contains(ncols, x)
        is_y_numeric == Contains(ncols, y)
        is_x_cat == Contains(ccols, x)
        is_y_cat == Contains(ccols, y)
    IN Then(Heading("bivar", "Bivariate Analysis"),
            IF is_x_numeric \/ is_y_numeric
            THEN Plot("bivar", "px.scatter", "scatter_trendline", <<x, y>>, d, env)
            ELSE IF is_x_cat /\ is_y_cat
            THEN CountplotGrid(d, x, y, env)
            ELSE Mixed(d, ncols, ccols, x, y, env))

Bivariate(d, ncols, ccols, x, y, env) ==
    LET is_x_numeric == Contains(ncols, x)
        is_y_numeric == Contains(ncols, y)
        is_x_cat == Contains(ccols, x)
        is_y_cat == Contains(ccols, y)
    IN Then(Heading("bivar", "Bivariate Analysis"),
            IF is_x_numeric /\ is_y_numeric
            THEN Plot("bivar", "px.scatter", "scatter_trendline", <<x, y>>, d, env)
            ELSE IF is_x_cat /\ is_y_cat
            THEN CountplotGrid(d, x, y, env)
            ELSE Mixed(d, ncols, ccols, x, y, env))

(***************************************************************************)
(* Multivariate Analysis (lines 183-292)                                   *)
(***************************************************************************)
\* name.replace(" ", "_").replace("-", "_")
sanitize(name) ==
    [i \in DOMAIN name |-> IF name[i] \in {" ", "-"} THEN "_" ELSE name[i]]

\* frame.fillna(0) in place of dropna(): every row kept, gaps filled
fillna(f) ==
    Frame(f.columns, f.dtypes, f.index,
          [r \in DOMAIN f.data |->
              [k \in DOMAIN f.columns |->
                  IF f.data[r][k].null THEN Num(0) ELSE f.data[r][k]]])

\* frame.dropna(): the rows without a missing cell, index labels kept
dropna(f) ==
    LET full(r) == \A k \in DOMAIN f.columns : ~f.data[r][k].null
    IN TakeRows(f, SelectSeq(Indices(Len(f.data)), full))

\* frame.rename(columns=mapping): a new frame, labels in the mapping replaced
rename(f, mapping) ==
    Frame([k \in DOMAIN f.columns |->
              IF f.columns[k] \in DOMAIN mapping
              THEN mapping[f.columns[k]] ELSE f.columns[k]],
          f.dtypes, f.index, f.data)

\* df.value_counts(cols).reset_index(name='Count'): one row per combination
\* of values that occurs (rows with a missing value left out)
value_counts(d, cols) ==
    LET sub == dropna(Project(d, cols))
        combos == Range(sub.data)
        n == Cardinality(combos)
    IN Frame(cols \o <<<<"Count">>>>,
             [k \in 1..(Len(cols) + 1) |-> IF k <= Len(cols) THEN "object" ELSE "number"],
             [i \in 1..n |-> i - 1],
             <<>>)

\* lines 253-258 without the try/except
ManovaBlockNoCatch(formula, data, env) ==
    LET call == Event("multi", "fit", "MANOVA.from_formula", <<>>, data, formula)
        label == Event("multi", "text", "label", <<>>, EmptyFrame,
                       <<"Multivariate ANOVA (Wilks' Lambda):">>)
        summary == Event("multi", "text", "mv_test.summary", <<>>, data, formula)
    IN IF env.call = "MANOVA.from_formula"
       THEN Then(Result(<<call>>, FALSE), Uncaught("multi", env.call, env.e))
       ELSE IF env.call = "mv_test"
       THEN Then(Result(<<call, label>>, FALSE), Uncaught("multi", env.call, env.e))
       ELSE Result(<<call, label, summary>>, FALSE)

\* lines 253-258
ManovaBlock(formula, data, env) ==
    LET call == Event("multi", "fit", "MANOVA.from_formula", <<>>, data, formula)
        label == Event("multi", "text", "label", <<>>, EmptyFrame,
                       <<"Multivariate ANOVA (Wilks' Lambda):">>)
        summary == Event("multi", "text", "mv_test.summary", <<>>, data, formula)
        failed == Message("multi", "error", <<"MANOVA failed: ", env.e>>).ev
    IN IF env.call = "MANOVA.from_formula" THEN Result(<<call>> \o failed, FALSE)
       ELSE IF env.call = "mv_test" THEN Result(<<call, label>> \o failed, FALSE)
       ELSE Result(<<call, label, summary>>, FALSE)

\* lines 274-289
AnovaBlock(formula, data, vs, env) ==
    LET call == Event("multi", "fit", "ols.fit", <<>>, data, formula)
        table == Event("multi", "table", "anova_lm", <<>>, data, formula)
        chart == Event("multi", "chart", "grouped_boxplot", vs, data, <<>>)
        failed == Message("multi", "error", <<"Two-way ANOVA failed: ", env.e>>).ev
    IN IF env.call = "ols.fit" THEN Result(<<call>> \o failed, FALSE)
       ELSE IF env.call = "anova_lm" THEN Result(<<call>> \o failed, FALSE)
       ELSE IF env.call = "sns.boxplot" THEN Result(<<call, table>> \o failed, FALSE)
       ELSE Result(<<call, table, chart>>, FALSE)

\* lines 233-258: two numeric and one categorical
TwoNumericOneCategorical(sel_frame, selected_numeric, selected_categorical, env) ==
    LET num1 == selected_numeric[1]
        num2 == selected_numeric[2]
        cat == selected_categorical[1]
        safe_cat == sanitize(cat)
        renamed == rename(sel_frame, cat :> safe_cat)
        formula == num1 \o <<" + ">> \o num2 \o <<" ~ C(">> \o safe_cat \o <<")">>
    IN [res |-> Then(Heading("multi", "Two numeric variables vs one categorical factor"),
                Then(Plot("multi", "px.scatter", "scatter_by_category",
                          <<num1, num2, cat>>, sel_frame, env),
                     ManovaBlock(formula, renamed, env))),
        df_sel |-> IF env.call = "px.scatter" THEN sel_frame ELSE renamed]

\* lines 260-289: one numeric and two categorical
OneNumericTwoCategorical(sel_frame, selected_numeric, selected_categorical, env) ==
    LET num == selected_numeric[1]
        cat1 == selected_categorical[1]
        cat2 == selected_categorical[2]
        safe_cat1 == sanitize(cat1)
        safe_cat2 == sanitize(cat2)
        safe_num == sanitize(num)
        renamed == rename(sel_frame,
                          cat1 :> safe_cat1 @@ cat2 :> safe_cat2 @@ num :> safe_num)
        formula == safe_num \o <<" ~ C(">> \o safe_cat1 \o <<") * C(">>
                   \o safe_cat2 \o <<")">>
    IN [res |-> Then(Heading("multi", "Two categorical factors vs one numeric dependent variable"),
                     AnovaBlock(formula, renamed,
                                <<safe_cat1, safe_num, safe_cat2>>, env)),
        df_sel |-> renamed]

\* lines 228-292: the mixed branch; df_sel is what the branch leaves bound
MixedBranch(d, selected_numeric, selected_categorical, env) ==
    LET sel_frame == dropna(Project(d, selected_numeric \o selected_categorical))
        r == IF Len(selected_numeric) = 2 /\ Len(selected_categorical) = 1
             THEN TwoNumericOneCategorical(sel_frame, selected_numeric,
                                           selected_categorical, env)
             ELSE IF Len(selected_numeric) = 1 /\ Len(selected_categorical) = 2
             THEN OneNumericTwoCategorical(sel_frame, selected_numeric,
                                           selected_categorical, env)
             ELSE [res |-> Message("multi", "warning",
                       <<"For multivariate ANOVA, please select exactly:",
                         "- 2 numeric + 1 categorical, or",
                         "- 1 numeric + 2 categorical variables.">>),
                   df_sel |-> sel_frame]
    IN [res |-> Then(Heading("multi", "Multivariate ANOVA Analysis"), r.res),
        df_sel |-> <<r.df_sel>>]

\* line 197, with the arity check off by one
TooFewOffByOne(features) == Len(features) < 1

\* line 197
TooFew(features) == Len(features) < 2

\* line 204
NumericOnly(selected_numeric, selected_categorical) ==
    Len(selected_numeric) >= 2 /\ Len(selected_categorical) = 0

\* line 213, asking for exactly two categorical columns
CategoricalOnlyExactlyTwo(selected_numeric, selected_categorical) ==
    Len(selected_categorical) = 2 /\ Len(selected_numeric) = 0

\* line 213
CategoricalOnly(selected_numeric, selected_categorical) ==
    Len(selected_categorical) >= 2 /\ Len(selected_numeric) = 0

\* line 228
NumericAndCategorical(selected_numeric, selected_categorical) ==
    Len(selected_numeric) > 0 /\ Len(selected_categorical) > 0

\* lines 197-292
Dispatch(d, ncols, ccols, features, env) ==
    LET selected_numeric == Among(features, ncols)
        selected_categorical == Among(features, ccols)
    IN IF TooFew(features)
       THEN [res |-> Message("multi", "info", <<"Please select at least two features.">>),
             df_sel |-> <<>>]
       ELSE IF NumericOnly(selected_numeric, selected_categorical)
       THEN [res |-> Plot("multi", "px.imshow", "correlation_heatmap",
                          selected_numeric, Project(d, selected_numeric), env),
             df_sel |-> <<>>]
       ELSE IF CategoricalOnly(selected_numeric, selected_categorical)
       THEN [res |-> Then(Heading("multi", "Stacked Bar Chart (Categorical Features)"),
                          Plot("multi", "px.bar", "stacked_bar",
                               <<selected_categorical[1], selected_categorical[2]>>,
                               value_counts(d, selected_categorical), env)),
             df_sel |-> <<>>]
       ELSE IF NumericAndCategorical(selected_numeric, selected_categorical)
       THEN MixedBranch(d, selected_numeric, selected_categorical, env)
       ELSE [res |-> Result(<<>>, FALSE), df_sel |-> <<>>]

Multivariate(d, ncols, ccols, features, env) ==
    LET r == Dispatch(d, ncols, ccols, features, env)
    IN [res |-> Then(Heading("multi", "Multivariate Analysis"), r.res),
        df_sel |-> r.df_sel]

(***************************************************************************)
(* Sidebar filters.  The script shows "rows after applied filters" but the *)
(* filter widgets themselves are not in this file; they are modelled from  *)
(* the specification: membership in a chosen set of provinces and an       *)
(* income range, combined by AND.                                          *)
(***************************************************************************)
Provinces == {"Ontario", "Quebec"}
SliderStops == {30000, 40000, 50000}

FilterSettings ==
    {[provinces |-> ps, lo |-> lo, hi |-> hi] :
        ps \in SUBSET Provinces, lo \in SliderStops, hi \in SliderStops}

\* every province selected, the slider at its full range
DefaultFilters == [provinces |-> Provinces, lo |-> 30000, hi |-> 50000]

\* the rows of d that pass every predicate
ApplyFilters(d, f) ==
    LET p == IndexOf(d.columns, ProvinceOrState)
        i == IndexOf(d.columns, Income)
        pass(r) == /\ ~d.data[r][p].null
                   /\ d.data[r][p].s \in f.provinces
                   /\ ~d.data[r][i].null
                   /\ f.lo <= d.data[r][i].n
                   /\ d.data[r][i].n <= f.hi
    IN TakeRows(d, SelectSeq(Indices(Len(d.data)), pass))

\* f2 adds to or tightens the predicates of f1
Tighter(f2, f1) ==
    /\ f2.provinces \subseteq f1.provinces
    /\ f2.lo >= f1.lo
    /\ f2.hi <= f1.hi

(***************************************************************************)
(* One execution of the script, step by step                               *)
(***************************************************************************)
widgets == <<uni_feature, bivar_feature_x, bivar_feature_y, multi_features>>
session == <<csv, raises>>
loaded == <<cache, df, numeric_cols, categorical_cols>>
history == <<same, prevOut, tightened>>

\* lines 28-42: df = load_data() through the st.cache_data store, then the
\* two column lists
Load ==
    /\ pc = "load"
    /\ cache' = IF cache = <<>> THEN <<load_data(csv)>> ELSE cache
    /\ df' = cache'[1]
    /\ numeric_cols' = select_dtypes(df', "number")
    /\ categorical_cols' = select_dtypes(df', "object")
    /\ pc' = "overview"
    /\ UNCHANGED <<session, view, filters, widgets, df_sel, out, history>>

\* the tables and metrics of lines 50-76
OverviewEvents(d) ==
    << Event("overview", "table", "Customer Data Table", <<>>, d, <<>>),
       Event("overview", "table", "Overview Metrics",
             <<ProvinceOrState, Income, CustomerLifetimeValue, CancellationDate>>,
             d, <<>>),
       Event("overview", "table", "Descriptive Statistics", <<>>, d, <<>>) >>

\* lines 50-76: the table shows df itself
Overview ==
    /\ pc = "overview"
    /\ view' = df
    /\ out' = out \o OverviewEvents(view')
    /\ pc' = "uni"
    /\ UNCHANGED <<session, loaded, filters, widgets, df_sel, history>>

\* lines 50-76 with the sidebar filters applied before the table is shown
FilteredOverview ==
    /\ pc = "overview"
    /\ view' = ApplyFilters(df, filters)
    /\ out' = out \o OverviewEvents(view')
    /\ pc' = "uni"
    /\ UNCHANGED <<session, loaded, filters, widgets, df_sel, history>>

\* where an execution goes after a panel
After(r, next) == IF r.raised THEN "crashed" ELSE next

RunUnivariate ==
    /\ pc = "uni"
    /\ LET r == Univariate(view, numeric_cols, uni_feature, raises)
       IN /\ out' = out \o r.ev
          /\ pc' = After(r, "bivar")
    /\ UNCHANGED <<session, loaded, view, filters, widgets, df_sel, history>>

RunBivariate ==
    /\ pc = "bivar"
    /\ LET r == Bivariate(view, numeric_cols, categorical_cols,
                          bivar_feature_x, bivar_feature_y, raises)
       IN /\ out' = out \o r.ev
          /\ pc' = After(r, "multi")
    /\ UNCHANGED <<session, loaded, view, filters, widgets, df_sel, history>>

\* what the multivariate panel does to the page, to df_sel and to pc
MultivariateEffect ==
    LET r == Multivariate(view, numeric_cols, categorical_cols,
                          multi_features, raises)
    IN /\ out' = out \o r.res.ev
       /\ df_sel' = r.df_sel
       /\ pc' = After(r.res, "done")

\* the same, with the columns renamed on the cached frame itself
RunMultivariateInPlace ==
    /\ pc = "multi"
    /\ MultivariateEffect
    /\ df' = IF df_sel' = <<>> THEN df
             ELSE rename(df, [c \in Range(df.columns) |-> sanitize(c)])
    /\ cache' = <<df'>>
    /\ UNCHANGED <<session, numeric_cols, categorical_cols, view, filters,
                   widgets, history>>

\* lines 183-292: df_sel is a frame of its own (df[...].dropna(), then
\* rename returns a new frame), so df and the cache keep their columns
RunMultivariate ==
    /\ pc = "multi"
    /\ MultivariateEffect
    /\ UNCHANGED <<session, loaded, view, filters, widgets, history>>

(***************************************************************************)
(* The user.  An execution runs to its end before the next one starts.     *)
(***************************************************************************)
Ended == pc \in {"done", "crashed"}

\* the panel an aborted execution stopped in
CrashedIn == out[Len(out)].panel

\* the widgets of a panel are on the page once the execution has reached it
Shown(panel) ==
    \/ pc = "done"
    \/ /\ pc = "crashed"
       /\ \/ panel = "uni"
          \/ panel = "bivar" /\ CrashedIn \in {"bivar", "multi"}
          \/ panel = "multi" /\ CrashedIn = "multi"

\* a widget change starts the next execution
Restart(repeat) ==
    /\ pc' = "load"
    /\ out' = <<>>
    /\ df_sel' = <<>>
    /\ same' = repeat
    /\ prevOut' = IF repeat THEN out ELSE <<>>

Options == Range(df.columns)

ChangeUni ==
    /\ Ended /\ Shown("uni")
    /\ \E c \in Options \ {uni_feature} : uni_feature' = c
    /\ Restart(FALSE)
    /\ tightened' = TRUE
    /\ UNCHANGED <<session, loaded, view, filters, bivar_feature_x,
                   bivar_feature_y, multi_features>>

ChangeBivarX ==
    /\ Ended /\ Shown("bivar")
    /\ \E c \in Options \ {bivar_feature_x} : bivar_feature_x' = c
    /\ Restart(FALSE)
    /\ tightened' = TRUE
    /\ UNCHANGED <<session, loaded, view, filters, uni_feature,
                   bivar_feature_y, multi_features>>

ChangeBivarY ==
    /\ Ended /\ Shown("bivar")
    /\ \E c \in Options \ {bivar_feature_y} : bivar_feature_y' = c
    /\ Restart(FALSE)
    /\ tightened' = TRUE
    /\ UNCHANGED <<session, loaded, view, filters, uni_feature,
                   bivar_feature_x, multi_features>>

\* the user adds one option to the multiselect
AddFeature ==
    /\ Ended /\ Shown("multi")
    /\ Len(multi_features) < MaxSel
    /\ \E c \in Options \ Range(multi_features) :
          multi_features' = Append(multi_features, c)
    /\ Restart(FALSE)
    /\ tightened' = TRUE
    /\ UNCHANGED <<session, loaded, view, filters, uni_feature,
                   bivar_feature_x, bivar_feature_y>>

\* the user removes one option from the multiselect
RemoveFeature ==
    /\ Ended /\ Shown("multi")
    /\ \E i \in DOMAIN multi_features :
          multi_features' = SubSeq(multi_features, 1, i - 1)
                            \o SubSeq(multi_features, i + 1, Len(multi_features))
    /\ Restart(FALSE)
    /\ tightened' = TRUE
    /\ UNCHANGED <<session, loaded, view, filters, uni_feature,
                   bivar_feature_x, bivar_feature_y>>

\* the user moves a sidebar filter
ChangeFilter ==
    /\ Ended
    /\ \E f \in FilterSettings \ {filters} :
          /\ f.lo <= f.hi
          /\ filters' = f
          /\ tightened' = Tighter(f, filters)
    /\ Restart(FALSE)
    /\ UNCHANGED <<session, loaded, view, widgets>>

\* the script runs again with every widget as it was
Rerun ==
    /\ Ended
    /\ Restart(TRUE)
    /\ tightened' = TRUE
    /\ UNCHANGED <<session, loaded, view, filters, widgets>>

(***************************************************************************)
(* Specifications                                                          *)
(***************************************************************************)
\* a new session on the given file: nothing loaded, every widget at its
\* default, the first execution about to start
Start(file, failure) ==
    /\ csv = file
    /\ raises = failure
    /\ cache = <<>>
    /\ df = EmptyFrame
    /\ numeric_cols = <<>>
    /\ categorical_cols = <<>>
    /\ view = EmptyFrame
    /\ filters = DefaultFilters
    /\ uni_feature = load_data(file).columns[1]
    /\ bivar_feature_x = load_data(file).columns[1]
    /\ bivar_feature_y = load_data(file).columns[1]
    /\ multi_features = DefaultMulti(load_data(file))
    /\ df_sel = <<>>
    /\ out = <<>>
    /\ pc = "load"
    /\ same = FALSE
    /\ prevOut = <<>>
    /\ tightened = FALSE

Script == Load \/ Overview \/ RunUnivariate \/ RunBivariate \/ RunMultivariate

\* the user works the multivariate panel, on any file, in any session
Init == \E x \in ExtraChoices, f \in Failures : Start(read_csv(x, RouterRows), f)
Next == Script \/ AddFeature \/ RemoveFeature \/ Rerun
Spec == Init /\ [][Next]_vars

\* the user works every panel, on the file with the required columns
PanelFailures == {NoFailure,
                  [call |-> "sns.violinplot", e |-> "ValueError"],
                  [call |-> "px.scatter", e |-> "ValueError"]}
InitPanels == \E f \in PanelFailures : Start(read_csv({}, RouterRows), f)
NextPanels ==
    \/ Script
    \/ ChangeUni \/ ChangeBivarX \/ ChangeBivarY
    \/ AddFeature \/ RemoveFeature \/ Rerun
SpecPanels == InitPanels /\ [][NextPanels]_vars

\* the user works the sidebar filters, on any records
InitFilter ==
    \E recs \in [1..NumRows -> RowProfiles] : Start(read_csv({}, recs), NoFailure)
NextFilter ==
    \/ Load \/ FilteredOverview \/ RunUnivariate \/ RunBivariate \/ RunMultivariate
    \/ ChangeFilter \/ Rerun
SpecFilter == InitFilter /\ [][NextFilter]_vars

(***************************************************************************)
(* Vocabulary of the properties                                            *)
(***************************************************************************)
Panels == {"uni", "bivar", "multi"}

\* the panel has run in this execution, to its end or to an exception
Ran(panel) ==
    CASE panel = "uni" -> pc \in {"bivar", "multi", "done", "crashed"}
      [] panel = "bivar" -> \/ pc \in {"multi", "done"}
                            \/ pc = "crashed" /\ CrashedIn \in {"bivar", "multi"}
      [] panel = "multi" -> \/ pc = "done"
                            \/ pc = "crashed" /\ CrashedIn = "multi"

\* the panel's events apart from its titles
Body(panel) ==
    LET of(e) == e.panel = panel /\ e.kind # "heading" IN SelectSeq(out, of)

Has(panel, kinds) == \E i \in DOMAIN out : out[i].panel = panel /\ out[i].kind \in kinds
Drew(panel, what) ==
    \E i \in DOMAIN out : out[i].panel = panel /\ out[i].kind = "chart" /\ out[i].what = what

Rendered(panel) == Has(panel, {"chart", "table", "text"})
Validation(panel) ==
    \E i \in DOMAIN out : /\ out[i].panel = panel /\ out[i].kind = "message"
                          /\ out[i].what \in {"info", "warning"}

IsNumeric(c) == Contains(numeric_cols, c)
IsCategorical(c) == Contains(categorical_cols, c)
NumericIn(sel) == Among(sel, numeric_cols)
CategoricalIn(sel) == Among(sel, categorical_cols)

\* a selection of exactly n Numeric and c Categorical columns and no other
Shape(sel, n, c) ==
    /\ Len(sel) = n + c
    /\ Len(NumericIn(sel)) = n
    /\ Len(CategoricalIn(sel)) = c

bivar_selection == <<bivar_feature_x, bivar_feature_y>>

(***************************************************************************)
(* C1                                                                      *)
(***************************************************************************)
\* the violin recipe was chosen: its chart is on the page, numeric variable
\* on x split by the categorical one, or sns.violinplot raised
ViolinChosen(panel, sel) ==
    /\ Len(Body(panel)) = 1
    /\ LET e == Body(panel)[1]
       IN \/ /\ e.kind = "chart" /\ e.what = "violin_h"
             /\ e.vars = <<NumericIn(sel)[1], CategoricalIn(sel)[1]>>
             /\ e.rows = view.index
          \/ e.kind = "exception" /\ e.what = "sns.violinplot"

NoScatterNoHeatmap(panel) ==
    /\ ~Drew(panel, "scatter_trendline")
    /\ ~Drew(panel, "scatter_by_category")
    /\ ~Drew(panel, "correlation_heatmap")

\* C1 as stated: for every selection of exactly one Numeric and one
\* Categorical column, in either order, in the bivariate panel and in the
\* multivariate panel alike, the violin recipe is chosen, never the scatter
\* or the heatmap recipe.
C1_AsStated ==
    /\ (Ran("bivar") /\ Shape(bivar_selection, 1, 1))
          => ViolinChosen("bivar", bivar_selection) /\ NoScatterNoHeatmap("bivar")
    /\ (Ran("multi") /\ Shape(multi_features, 1, 1))
          => ViolinChosen("multi", multi_features) /\ NoScatterNoHeatmap("multi")

\* C1 amended: in the bivariate panel every selection of one Numeric and
\* one Categorical column, in either order, chooses the horizontal violin
\* recipe (numeric split by categorical); in the multivariate panel the same
\* selection is rejected with the ANOVA arity warning and no chart; in
\* neither panel is the scatter or the heatmap recipe chosen.
C1_Amended ==
    /\ (Ran("bivar") /\ Shape(bivar_selection, 1, 1))
          => ViolinChosen("bivar", bivar_selection) /\ NoScatterNoHeatmap("bivar")
    /\ (Ran("multi") /\ Shape(multi_features, 1, 1))
          => /\ Len(Body("multi")) = 1
             /\ Body("multi")[1].kind = "message"
             /\ Body("multi")[1].what = "warning"
             /\ NoScatterNoHeatmap("multi")
             /\ pc = "done"

\* both panels have run on one Numeric and one Categorical column, the
\* bivariate one with the categorical column first, and the violin is drawn
C1_Witness ==
    /\ pc = "done"
    /\ Shape(bivar_selection, 1, 1)
    /\ IsCategorical(bivar_feature_x)
    /\ Drew("bivar", "violin_h")
    /\ Shape(multi_features, 1, 1)

(***************************************************************************)
(* C2                                                                      *)
(***************************************************************************)
\* C2 as stated: every selection of exactly three Categorical columns is
\* rejected: a validation message, no chart, no model fit.
C2_AsStated ==
    (Ran("multi") /\ Shape(multi_features, 0, 3))
       => /\ Has("multi", {"message"})
          /\ ~Has("multi", {"chart", "fit"})

\* C2 amended: a selection of exactly three Categorical columns is not
\* rejected: the categorical-only branch takes it and asks for the stacked
\* bar chart of the joint frequencies of the three columns, the first
\* selected column on x and the second as colour; no validation message is
\* shown and no model is fitted.
C2_Amended ==
    (Ran("multi") /\ Shape(multi_features, 0, 3))
       => /\ Len(Body("multi")) = 1
          /\ LET e == Body("multi")[1]
             IN \/ /\ e.kind = "chart" /\ e.what = "stacked_bar"
                   /\ e.vars = <<multi_features[1], multi_features[2]>>
                   /\ e.cols = multi_features \o <<<<"Count">>>>
                   /\ pc = "done"
                \/ e.kind = "exception" /\ e.what = "px.bar"
          /\ ~Has("multi", {"message", "fit"})

\* three categorical columns are selected and the stacked bar chart is drawn
C2_Witness ==
    /\ pc = "done"
    /\ Shape(multi_features, 0, 3)
    /\ Drew("multi", "stacked_bar")

(***************************************************************************)
(* C3                                                                      *)
(***************************************************************************)
\* two of the selected raw names have the same sanitized identifier
Collides(sel) ==
    \E i, j \in DOMAIN sel : i # j /\ sanitize(sel[i]) = sanitize(sel[j])

\* C3: for two Numeric and one Categorical column of which two names
\* sanitize to the same identifier, the panel reports the collision and
\* MANOVA.from_formula is never called.
C3_AsStated ==
    (Ran("multi") /\ Shape(multi_features, 2, 1) /\ Collides(multi_features))
       => /\ ~Has("multi", {"fit"})
          /\ raises = NoFailure => Has("multi", {"message"})

(***************************************************************************)
(* C4                                                                      *)
(***************************************************************************)
\* C4: an execution that reaches its end has, for the selection handed to
\* the multivariate panel, either rendered a recipe or shown a message, and
\* never a validation message next to a rendered recipe.
C4_AsStated ==
    pc = "done"
       => /\ Rendered("multi") \/ Has("multi", {"message"})
          /\ ~(Rendered("multi") /\ Validation("multi"))

(***************************************************************************)
(* C5                                                                      *)
(***************************************************************************)
\* the statistics calls made inside the try block of each model
TryBlock(fit) == IF fit = "MANOVA.from_formula"
                 THEN {"MANOVA.from_formula", "mv_test"}
                 ELSE {"ols.fit", "anova_lm"}
FailedPrefix(fit) == IF fit = "MANOVA.from_formula"
                THEN "MANOVA failed: " ELSE "Two-way ANOVA failed: "

\* C5: whenever a model is fitted and the statistics collaborator raises,
\* the last thing on the page is an error message carrying the error text,
\* nothing of the recipe follows the failed call, and the execution has
\* run to its end.
C5_Confirmed ==
    \A i \in DOMAIN out :
       (out[i].kind = "fit" /\ raises.call \in TryBlock(out[i].what))
          => /\ pc = "done"
             /\ out[Len(out)].kind = "message"
             /\ out[Len(out)].what = "error"
             /\ out[Len(out)].text = <<FailedPrefix(out[i].what), raises.e>>
             /\ \A j \in (i + 1)..(Len(out) - 1) : out[j].what = "label"

\* MANOVA.from_formula raised "Singular matrix" and the page says so
C5_Witness ==
    /\ pc = "done"
    /\ raises = [call |-> "MANOVA.from_formula", e |-> "Singular matrix"]
    /\ Has("multi", {"fit"})
    /\ out[Len(out)].text = <<"MANOVA failed: ", "Singular matrix">>

(***************************************************************************)
(* C6                                                                      *)
(***************************************************************************)
\* C6: when a panel raises, every other panel has still put its own output
\* on the page.
C6_AsStated ==
    pc = "crashed"
       => \A p \in Panels \ {CrashedIn} :
             Has(p, {"chart", "table", "text", "message"})

(***************************************************************************)
(* C7                                                                      *)
(***************************************************************************)
\* C7: a multivariate selection of fewer than two columns (none included)
\* gets the message asking for at least two features and nothing else: no
\* chart, no model fit, and the execution runs to its end.
C7_Confirmed ==
    (Ran("multi") /\ Len(multi_features) < 2)
       => /\ Len(Body("multi")) = 1
          /\ Body("multi")[1].kind = "message"
          /\ Body("multi")[1].what = "info"
          /\ Body("multi")[1].text = <<"Please select at least two features.">>
          /\ df_sel = <<>>
          /\ pc = "done"

\* the multiselect was emptied and the panel has answered
C7_Witness ==
    /\ pc = "done"
    /\ multi_features = <<>>
    /\ Has("multi", {"message"})

(***************************************************************************)
(* C8                                                                      *)
(***************************************************************************)
\* the rows of v are rows of d: labels of d in d's order, none twice, each
\* row holding under column origin[k] of d what v holds in its k-th column
RowsOf(v, d, origin) ==
    /\ \A i, j \in DOMAIN v.index : i < j => v.index[i] < v.index[j]
    /\ \A i \in DOMAIN v.index :
          /\ Contains(d.index, v.index[i])
          /\ LET r == IndexOf(d.index, v.index[i])
             IN \A k \in DOMAIN v.columns :
                   v.data[i][k] = d.data[r][IndexOf(d.columns, origin[k])]

\* the columns df_sel was cut from, in its column order
SelOrigin == NumericIn(multi_features) \o CategoricalIn(multi_features)

ViewIsSubset ==
    /\ pc \notin {"load", "overview"} => RowsOf(view, df, view.columns)
    /\ df_sel # <<>> => RowsOf(df_sel[1], view, SelOrigin)

\* the table recomputed under filters that were only tightened
Shrinks ==
    (pc = "overview" /\ tightened)
       => /\ Len(view'.index) <= Len(view.index)
          /\ Range(view'.index) \subseteq Range(view.index)

SamePage == (Ended /\ same) => out = prevOut

\* once loaded, the cached dataset and the two column lists never change
LoadedIsStable ==
    cache # <<>>
       => /\ cache' = cache
          /\ pc # "load" => df' = df /\ numeric_cols' = numeric_cols
                            /\ categorical_cols' = categorical_cols
          /\ pc = "load" => df' = cache[1]

\* C9: two executions in a row with the same widgets put the same page up,
\* and no execution changes the cached dataset or the column lists: the
\* renaming to sanitized identifiers acts on df_sel alone.
C9_Confirmed == [](SamePage) /\ [][LoadedIsStable]_vars

\* a repeated execution whose mixed branch renamed a column of df_sel
C9_Witness ==
    /\ pc = "done"
    /\ same
    /\ df_sel # <<>>
    /\ df_sel[1].columns # SelOrigin
    /\ out = prevOut
    /\ Has("multi", {"fit"})

(***************************************************************************)
(* C10                                                                     *)
(***************************************************************************)
\* C10: every column of the loaded dataset, the two date columns included,
\* is in exactly one of numeric_cols and categorical_cols, in every
\* execution.
C10_AsStated ==
    cache # <<>> /\ pc # "load"
       => \A c \in Range(df.columns) : IsNumeric(c) # IsCategorical(c)

====
